---- MODULE Spec2Model ----
(***************************************************************************)
(* Model of pkg/connector/local_connector.go: the local backend of the     *)
(* Connector / GatherFacts contracts.                                      *)
(*                                                                         *)
(* The backend itself is stateless (one field, the injected exec           *)
(* provider).  The state of the model is therefore the part of the host    *)
(* the backend acts on (the filesystem, the process's open file            *)
(* descriptors, the spawned shell process), the caller's context and       *)
(* destination writer, and the position of the one call in flight.  Calls  *)
(* are synchronous and the backend does no locking, so one top-level call  *)
(* is in flight at a time; Info runs FetchFile and ExecuteCommand nested   *)
(* in it.  Every call is split at the points where it touches the host,    *)
(* so that cancellation and I/O errors can fall between them.              *)
(*                                                                         *)
(* Permissions are tracked by the owner bits r, w, x only; every node is   *)
(* owned by the caller, and the umask is taken not to clear owner bits.    *)
(***************************************************************************)
EXTENDS Integers, Sequences, FiniteSets, TLC

VARIABLES
    goos,       \* runtime.GOOS
    isRoot,     \* the process runs with CAP_DAC_OVERRIDE (permission checks bypassed)
    fs,         \* filesystem: path -> [kind, mode, data]
    openFiles,  \* file descriptors the process holds open
    call,       \* top-level call in flight or last returned: "none", "PutFile", ...
    pc,         \* position inside the call; "done" when no call is in flight
    ctxDone,    \* the ctx of the top-level call has been cancelled
    putSrc,     \* PutFile: src []byte
    putDst,     \* PutFile: dst string
    putMode,    \* PutFile: mode fs.FileMode
    fetchSrc,   \* FetchFile: src string
    fetchDst,   \* FetchFile: bytes the dst io.Writer has received
    fileOff,    \* FetchFile: read offset of the opened file
    cmd,        \* ExecuteCommand: cmd string
    proc,       \* the spawned /bin/sh process: "none", "running", "exited", "killed"
    procStatus, \* exit status of the process once exited
    out,        \* combined output collected from the process
    err,        \* error returned by the last primitive (PutFile, FetchFile, ExecuteCommand)
    infoStep,   \* Info: index of the fact source being read (0: none)
    osVars,     \* Info: osVars map
    procVars,   \* Info: procVars map
    ret,        \* Info: returned (document, error)
    calls,      \* primitives invoked on the backend by the call in flight, in order
    results,    \* Info: error of each completed fact-source read, in order
    pre         \* what held when the call in flight was made: Stat of the parent, whether
                \* the file existed, (FetchFile) its data and what dst had received

vars == << goos, isRoot, fs, openFiles, call, pc, ctxDone,
           putSrc, putDst, putMode, fetchSrc, fetchDst, fileOff,
           cmd, proc, procStatus, out, err,
           infoStep, osVars, procVars, ret, calls, results, pre >>

----------------------------------------------------------------------------
(* Bounds *)

MaxLen == 2        \* longest file content / byte slice
ChunkSize == 1     \* bytes io.Copy moves per read/write round
FdLimit == 2       \* RLIMIT_NOFILE left to the file operations

NL == 10           \* '\n'

Bytes == {NL, 97}

RECURSIVE SeqsUpTo(_)
SeqsUpTo(n) ==
    IF n = 0 THEN { <<>> }
    ELSE LET S == SeqsUpTo(n - 1)
         IN  S \cup { Append(s, b) : s \in { t \in S : Len(t) = n - 1 }, b \in Bytes }

Contents == SeqsUpTo(MaxLen)

----------------------------------------------------------------------------
(* Errors *)

NoErr == "nil"

----------------------------------------------------------------------------
(* Filesystem *)

OsRelease == << "etc", "os-release" >>
CpuInfo   == << "proc", "cpuinfo" >>
MemInfo   == << "proc", "meminfo" >>

FactFiles == { OsRelease, CpuInfo, MemInfo }
UserFile  == << "d", "e", "f" >>
UserFiles == { UserFile }
FilePaths == FactFiles \cup UserFiles

\* filepath.Dir
Dir(p) == SubSeq(p, 1, Len(p) - 1)

Root == << >>

Prefixes(p) == { SubSeq(p, 1, n) : n \in 0..Len(p) }

Paths == UNION { Prefixes(p) : p \in FilePaths }

Mode644 == { "r", "w" }
Mode755 == { "r", "w", "x" }
Modes == { Mode644, Mode755 }

NoNode == [kind |-> "none", mode |-> {}, data |-> << >>]
DirNode(m) == [kind |-> "dir", mode |-> m, data |-> << >>]
FileNode(m, d) == [kind |-> "file", mode |-> m, data |-> d]

\* access(2): the owner bit, or any access for a privileged process
May(node, bit) == isRoot \/ bit \in node.mode

\* Path resolution: every directory walked through must exist and be searchable.
RECURSIVE Lookup(_, _)
Lookup(f, p) ==
    IF p = Root THEN NoErr
    ELSE LET up == Lookup(f, Dir(p))
         IN  IF up # NoErr THEN up
             ELSE IF f[Dir(p)].kind # "dir" THEN "ENOTDIR"
             ELSE IF ~May(f[Dir(p)], "x") THEN "EACCES"
             ELSE IF f[p].kind = "none" THEN "ENOENT"
             ELSE NoErr

\* os.Stat
Stat(f, p) == Lookup(f, p)

\* os.IsNotExist
IsNotExist(e) == e = "ENOENT"

\* os.Mkdir: the parent must resolve, be a directory, and be writable and searchable.
MkdirErr(f, p) ==
    LET e == Lookup(f, p)
    IN  IF e = NoErr THEN "EEXIST"
        ELSE IF e # "ENOENT" THEN e
        ELSE IF ~May(f[Dir(p)], "w") THEN "EACCES"
        ELSE NoErr

\* os.MkdirAll(path, perm): returns [fs, err]; directories made before a failure stay.
RECURSIVE MkdirAll(_, _, _)
MkdirAll(f, p, perm) ==
    LET e == Stat(f, p)
    IN  IF e = NoErr
        THEN [fs |-> f, err |-> IF f[p].kind = "dir" THEN NoErr ELSE "ENOTDIR"]
        ELSE IF p = Root THEN [fs |-> f, err |-> e]
        ELSE LET up == MkdirAll(f, Dir(p), perm)
             IN  IF up.err # NoErr THEN up
                 ELSE LET me == MkdirErr(up.fs, p)
                      IN  IF me = NoErr
                          THEN [fs |-> [up.fs EXCEPT ![p] = DirNode(perm)], err |-> NoErr]
                          ELSE [fs |-> up.fs, err |-> me]

\* os.Open (O_RDONLY)
OpenErr(f, p) ==
    LET e == Lookup(f, p)
    IN  IF e # NoErr THEN e
        ELSE IF ~May(f[p], "r") THEN "EACCES"
        ELSE NoErr

\* os.OpenFile(name, O_WRONLY|O_CREATE|O_TRUNC, perm), as os.WriteFile opens the file
CreateErr(f, p) ==
    LET e == Lookup(f, p)
    IN  IF e = NoErr
        THEN IF f[p].kind = "dir" THEN "EISDIR"
             ELSE IF ~May(f[p], "w") THEN "EACCES"
             ELSE NoErr
        ELSE IF e # "ENOENT" THEN e
        ELSE IF ~May(f[Dir(p)], "w") THEN "EACCES"
        ELSE NoErr

----------------------------------------------------------------------------
(* State at rest *)

EmptyMap == [k \in {} |-> << >>]

NilRet == [isNil |-> TRUE, os |-> EmptyMap, process |-> EmptyMap, err |-> << >>]

NoPre == [parent |-> NoErr, existed |-> FALSE, data |-> << >>, w |-> << >>]

FactData == << 97, NL >>

\* The host before the first call: /etc and /proc hold the fact files (read-only);
\* nothing exists yet below the working root.
InitFs ==
    [p \in Paths |->
        IF p = Root \/ p \in { Dir(q) : q \in FactFiles } THEN DirNode(Mode755)
        ELSE IF p \in FactFiles THEN FileNode({ "r" }, FactData)
        ELSE NoNode]

Init ==
    /\ goos \in { "linux", "darwin" }
    /\ isRoot \in BOOLEAN
    /\ fs = InitFs
    /\ openFiles = 0
    /\ call = "none"
    /\ pc = "done"
    /\ ctxDone = FALSE
    /\ putSrc = << >>
    /\ putDst = Root
    /\ putMode = {}
    /\ fetchSrc = Root
    /\ fetchDst = << >>
    /\ fileOff = 0
    /\ cmd = ""
    /\ proc = "none"
    /\ procStatus = 0
    /\ out = << >>
    /\ err = NoErr
    /\ infoStep = 0
    /\ osVars = EmptyMap
    /\ procVars = EmptyMap
    /\ ret = NilRet
    /\ calls = << >>
    /\ results = << >>
    /\ pre = NoPre

\* A new top-level call: the caller's ctx, and the per-call state of the previous
\* call forgotten.
Enter(op, cancelled) ==
    /\ pc = "done"
    /\ call' = op
    /\ ctxDone' = cancelled
    /\ proc' = "none"
    /\ procStatus' = 0
    /\ out' = << >>
    /\ err' = NoErr
    /\ fileOff' = 0
    /\ infoStep' = 0
    /\ osVars' = EmptyMap
    /\ procVars' = EmptyMap
    /\ ret' = NilRet
    /\ results' = << >>
    /\ UNCHANGED << goos, isRoot, fs, openFiles >>

\* A primitive returns e: to Info when Info made the call, else to the caller.
Return(e) ==
    /\ err' = e
    /\ pc' = IF call = "Info" THEN "ret" ELSE "done"

Min(a, b) == IF a < b THEN a ELSE b

----------------------------------------------------------------------------
(* PutFile *)

PutFileCall ==
    \E b \in Contents, p \in UserFiles, m \in Modes, c \in BOOLEAN :
        /\ Enter("PutFile", c)
        /\ pc' = "PutFile.stat"
        /\ putSrc' = b
        /\ putDst' = p
        /\ putMode' = m
        /\ fetchSrc' = Root
        /\ fetchDst' = << >>
        /\ cmd' = ""
        /\ calls' = << << "PutFile", p >> >>
        /\ pre' = [parent |-> Stat(fs, Dir(p)), existed |-> fs[p].kind = "file",
                   data |-> fs[p].data, w |-> << >>]

\* The permission os.MkdirAll is given for the missing parent directories.
DirPerm == putMode

\* if _, err := os.Stat(filepath.Dir(dst)); err != nil && os.IsNotExist(err) { MkdirAll }
PutFileStat ==
    /\ pc = "PutFile.stat"
    /\ LET e == Stat(fs, Dir(putDst))
       IN  IF e # NoErr /\ IsNotExist(e)
           THEN LET r == MkdirAll(fs, Dir(putDst), DirPerm)
                IN  /\ fs' = r.fs
                    /\ IF r.err # NoErr
                       THEN Return(r.err)
                       ELSE pc' = "PutFile.open" /\ err' = err
           ELSE /\ fs' = fs
                /\ pc' = "PutFile.open"
                /\ err' = err
    /\ UNCHANGED << goos, isRoot, openFiles, call, ctxDone, putSrc, putDst,
                    putMode, fetchSrc, fetchDst, fileOff, cmd, proc,
                    procStatus, out, infoStep, osVars, procVars, ret, calls,
                    results, pre >>

\* What opening an existing file for the write leaves of its contents.
\* (mutant) the file is opened without O_TRUNC
OpenKeep(old) == old
OpenTrunc(old) == << >>

\* Where the write starts in a file opened holding cur.
WriteOffset(cur) == 0

\* Writing n bytes of b at offset o into cur.
WriteAt(cur, o, b, n) ==
    SubSeq(cur, 1, o) \o SubSeq(b, 1, n) \o SubSeq(cur, o + n + 1, Len(cur))

\* os.WriteFile: OpenFile(name, O_WRONLY|O_CREATE|O_TRUNC, perm)
PutFileOpen ==
    /\ pc = "PutFile.open"
    /\ LET e == IF openFiles >= FdLimit THEN "EMFILE" ELSE CreateErr(fs, putDst)
       IN  IF e # NoErr
           THEN /\ Return(e)
                /\ UNCHANGED << fs, openFiles >>
           ELSE /\ fs' = [fs EXCEPT ![putDst] =
                            IF fs[putDst].kind = "file"
                            THEN FileNode(fs[putDst].mode, OpenTrunc(fs[putDst].data))
                            ELSE FileNode(putMode, << >>)]
                /\ openFiles' = openFiles + 1
                /\ pc' = "PutFile.write"
                /\ err' = err
    /\ UNCHANGED << goos, isRoot, call, ctxDone, putSrc, putDst,
                    putMode, fetchSrc, fetchDst, fileOff, cmd, proc,
                    procStatus, out, infoStep, osVars, procVars, ret, calls,
                    results, pre >>

\* os.WriteFile: f.Write(data), f.Close(); n < Len(putSrc) is a failed write.
PutFileWriteN(n) ==
    /\ pc = "PutFile.write"
    /\ fs' = [fs EXCEPT ![putDst].data =
                 WriteAt(fs[putDst].data, WriteOffset(fs[putDst].data), putSrc, n)]
    /\ openFiles' = openFiles - 1
    /\ Return(IF n = Len(putSrc) THEN NoErr ELSE "EIO")
    /\ UNCHANGED << goos, isRoot, call, ctxDone, putSrc, putDst,
                    putMode, fetchSrc, fetchDst, fileOff, cmd, proc,
                    procStatus, out, infoStep, osVars, procVars, ret, calls,
                    results, pre >>

PutFileWrite == PutFileWriteN(Len(putSrc))

PutFileWriteErr == \E n \in 0..(Len(putSrc) - 1) : PutFileWriteN(n)

----------------------------------------------------------------------------
(* FetchFile *)

Writers == { << >>, << 97 >> }

FetchFileCall ==
    \E p \in FilePaths, w \in Writers, c \in BOOLEAN :
        /\ Enter("FetchFile", c)
        /\ pc' = "FetchFile.open"
        /\ fetchSrc' = p
        /\ fetchDst' = w
        /\ putSrc' = << >>
        /\ putDst' = Root
        /\ putMode' = {}
        /\ cmd' = ""
        /\ calls' = << << "FetchFile", p >> >>
        /\ pre' = [parent |-> Stat(fs, Dir(p)), existed |-> fs[p].kind = "file",
                   data |-> fs[p].data, w |-> w]

\* (mutant) the open error is logged and dropped
OpenFailureSwallowed(e) == NoErr

\* The error FetchFile returns when os.Open failed with e.
OpenFailure(e) == e

\* file, err := os.Open(src); if err != nil { return err }
FetchFileOpen ==
    /\ pc = "FetchFile.open"
    /\ LET e == IF openFiles >= FdLimit THEN "EMFILE" ELSE OpenErr(fs, fetchSrc)
       IN  IF e # NoErr
           THEN /\ Return(OpenFailure(e))
                /\ UNCHANGED << openFiles, fileOff >>
           ELSE /\ openFiles' = openFiles + 1
                /\ fileOff' = 0
                /\ pc' = "FetchFile.copy"
                /\ err' = err
    /\ UNCHANGED << goos, isRoot, fs, call, ctxDone, putSrc, putDst,
                    putMode, fetchSrc, fetchDst, cmd, proc,
                    procStatus, out, infoStep, osVars, procVars, ret, calls,
                    results, pre >>

\* The bytes one round of io.Copy reads at offset o of data.
Chunk(data, o) == SubSeq(data, o + 1, Min(Len(data), o + ChunkSize))

\* io.Copy(dst, file): one round, the chunk read is written to dst in full
FetchFileCopy ==
    /\ pc = "FetchFile.copy"
    /\ fileOff < Len(fs[fetchSrc].data)
    /\ LET c == Chunk(fs[fetchSrc].data, fileOff)
       IN  /\ fetchDst' = fetchDst \o c
           /\ fileOff' = fileOff + Len(c)
    /\ UNCHANGED << goos, isRoot, fs, openFiles, call, pc, ctxDone, putSrc,
                    putDst, putMode, fetchSrc, cmd, proc, procStatus, out, err,
                    infoStep, osVars, procVars, ret, calls, results, pre >>

\* io.Copy reads EOF: return nil.  The file os.Open returned is not closed.
FetchFileEOF ==
    /\ pc = "FetchFile.copy"
    /\ fileOff = Len(fs[fetchSrc].data)
    /\ Return(NoErr)
    /\ UNCHANGED << goos, isRoot, fs, openFiles, call, ctxDone, putSrc,
                    putDst, putMode, fetchSrc, fetchDst, fileOff, cmd, proc,
                    procStatus, out, infoStep, osVars, procVars, ret, calls,
                    results, pre >>

\* (mutant) the error of io.Copy is dropped and nil returned
FetchFileReadErrIgnored ==
    /\ pc = "FetchFile.copy"
    /\ Return(NoErr)
    /\ UNCHANGED << goos, isRoot, fs, openFiles, call, ctxDone, putSrc,
                    putDst, putMode, fetchSrc, fetchDst, fileOff, cmd, proc,
                    procStatus, out, infoStep, osVars, procVars, ret, calls,
                    results, pre >>

\* io.Copy: the read fails (the file is not closed here either); if _, err := io.Copy(dst, file); err != nil { return err }
FetchFileReadErr ==
    /\ pc = "FetchFile.copy"
    /\ Return("EIO")
    /\ UNCHANGED << goos, isRoot, fs, openFiles, call, ctxDone, putSrc,
                    putDst, putMode, fetchSrc, fetchDst, fileOff, cmd, proc,
                    procStatus, out, infoStep, osVars, procVars, ret, calls,
                    results, pre >>

\* io.Copy: dst takes only n bytes of the chunk and fails (io.ErrShortWrite or its own
\* error).  The bytes.Buffer Info passes never fails a write.
FetchFileWriteErr ==
    /\ pc = "FetchFile.copy"
    /\ call = "FetchFile"
    /\ fileOff < Len(fs[fetchSrc].data)
    /\ \E n \in 0..(Len(Chunk(fs[fetchSrc].data, fileOff)) - 1) :
          fetchDst' = fetchDst \o SubSeq(Chunk(fs[fetchSrc].data, fileOff), 1, n)
    /\ Return("EWRITE")
    /\ UNCHANGED << goos, isRoot, fs, openFiles, call, ctxDone, putSrc,
                    putDst, putMode, fetchSrc, fileOff, cmd, proc,
                    procStatus, out, infoStep, osVars, procVars, ret, calls,
                    results, pre >>

\* File descriptors a call in flight is still using.
InUse == IF pc \in { "FetchFile.copy", "PutFile.write" } THEN 1 ELSE 0

\* The runtime's finalizer closes an *os.File that is no longer reachable.
Finalize ==
    /\ openFiles > InUse
    /\ openFiles' = openFiles - 1
    /\ UNCHANGED << goos, isRoot, fs, call, pc, ctxDone, putSrc, putDst,
                    putMode, fetchSrc, fetchDst, fileOff, cmd, proc,
                    procStatus, out, err, infoStep, osVars, procVars, ret, calls,
                    results, pre >>

----------------------------------------------------------------------------
(* ExecuteCommand *)

Cmds == { "uname -r", "hostname", "arch" }

ExecuteCommandCall ==
    \E s \in Cmds, c \in BOOLEAN :
        /\ Enter("ExecuteCommand", c)
        /\ pc' = "ExecuteCommand.start"
        /\ cmd' = s
        /\ putSrc' = << >>
        /\ putDst' = Root
        /\ putMode' = {}
        /\ fetchSrc' = Root
        /\ fetchDst' = << >>
        /\ calls' = << << "ExecuteCommand", s >> >>
        /\ pre' = NoPre

\* (mutant) the command is started with context.Background(), which is never done
CmdCtxBackground == FALSE

\* Whether the context handed to c.Cmd.CommandContext is done: it is the caller's ctx.
CmdCtxDone == ctxDone

\* CommandContext(ctx, "/bin/sh", "-c", cmd).CombinedOutput(): Start.  A context
\* that is already done fails the start before any process is spawned.
ExecStart ==
    /\ pc = "ExecuteCommand.start"
    /\ IF CmdCtxDone
       THEN /\ Return("canceled")
            /\ proc' = proc
       ELSE /\ proc' = "running"
            /\ pc' = "ExecuteCommand.wait"
            /\ err' = err
    /\ UNCHANGED << goos, isRoot, fs, openFiles, call, ctxDone, putSrc, putDst,
                    putMode, fetchSrc, fetchDst, fileOff, cmd,
                    procStatus, out, infoStep, osVars, procVars, ret, calls,
                    results, pre >>

\* Start fails: the shell cannot be spawned
ExecStartErr ==
    /\ pc = "ExecuteCommand.start"
    /\ ~CmdCtxDone
    /\ Return("spawn")
    /\ UNCHANGED << goos, isRoot, fs, openFiles, call, ctxDone, putSrc, putDst,
                    putMode, fetchSrc, fetchDst, fileOff, cmd, proc,
                    procStatus, out, infoStep, osVars, procVars, ret, calls,
                    results, pre >>

ExitStatuses == { 0, 3 }

\* What a command prints: a line, with or without its newline.
Outputs == { << 97, NL >>, << 97 >> }

\* The shell exits by itself, having written o to stdout and stderr.
ProcExit ==
    /\ proc = "running"
    /\ \E st \in ExitStatuses, o \in Outputs :
          /\ procStatus' = st
          /\ out' = o
    /\ proc' = "exited"
    /\ UNCHANGED << goos, isRoot, fs, openFiles, call, pc, ctxDone, putSrc,
                    putDst, putMode, fetchSrc, fetchDst, fileOff, cmd, err,
                    infoStep, osVars, procVars, ret, calls, results, pre >>

\* CombinedOutput: Wait returns once the process is gone; it is reaped.
ExecWait ==
    /\ pc = "ExecuteCommand.wait"
    /\ proc \in { "exited", "killed" }
    /\ proc' = "none"
    /\ Return(IF proc = "killed" THEN "canceled"
              ELSE IF procStatus # 0 THEN "exit"
              ELSE NoErr)
    /\ UNCHANGED << goos, isRoot, fs, openFiles, call, ctxDone, putSrc, putDst,
                    putMode, fetchSrc, fetchDst, fileOff, cmd,
                    procStatus, out, infoStep, osVars, procVars, ret, calls,
                    results, pre >>

\* The caller cancels ctx while the call is in flight.  The command started with
\* CommandContext is killed as soon as its context is done.
Cancel ==
    /\ pc # "done"
    /\ ~ctxDone
    /\ ctxDone' = TRUE
    /\ proc' = IF proc = "running" /\ CmdCtxDone' THEN "killed" ELSE proc
    /\ UNCHANGED << goos, isRoot, fs, openFiles, call, pc, putSrc, putDst,
                    putMode, fetchSrc, fetchDst, fileOff, cmd,
                    procStatus, out, err, infoStep, osVars, procVars, ret, calls,
                    results, pre >>

----------------------------------------------------------------------------
(* Info *)

InfoCall ==
    \E c \in BOOLEAN :
        /\ Enter("Info", c)
        /\ pc' = "Info"
        /\ putSrc' = << >>
        /\ putDst' = Root
        /\ putMode' = {}
        /\ fetchSrc' = Root
        /\ fetchDst' = << >>
        /\ cmd' = ""
        /\ calls' = << >>
        /\ pre' = NoPre

\* (mutant) the platform switch is missing
AnyPlatform == TRUE

\* switch runtime.GOOS { case "linux":
Supported == goos = "linux"

FetchStep(path, map, key, conv, sep, msg) ==
    [op |-> "FetchFile", arg |-> path, map |-> map, key |-> key,
     conv |-> conv, sep |-> sep, msg |-> msg]

ExecStep(c, map, key, msg) ==
    [op |-> "ExecuteCommand", arg |-> c, map |-> map, key |-> key,
     conv |-> "TrimSuffix", sep |-> "", msg |-> msg]

StepOsRelease == FetchStep(OsRelease, "os", "release", "convertBytesToMap", "=",
                           "failed to fetch os-release")
StepKernel    == ExecStep("uname -r", "os", "kernel_version", "get kernel version error")
StepHostname  == ExecStep("hostname", "os", "hostname", "get hostname error")
StepArch      == ExecStep("arch", "os", "architecture", "get arch error")
StepCpuInfo   == FetchStep(CpuInfo, "process", "cpuInfo", "convertBytesToSlice", ":",
                           "get cpuinfo error")
StepMemInfo   == FetchStep(MemInfo, "process", "memInfo", "convertBytesToMap", ":",
                           "get meminfo error")

\* (mutant) architecture is read before hostname
InfoStepsSwapped ==
    << StepOsRelease, StepKernel, StepArch, StepHostname, StepCpuInfo, StepMemInfo >>

\* The fact sources in the order Info reads them.
InfoSteps ==
    << StepOsRelease, StepKernel, StepHostname, StepArch, StepCpuInfo, StepMemInfo >>

NumSteps == Len(InfoSteps)

\* bytes.TrimSuffix(b, suffix)
TrimSuffix(b, suffix) ==
    IF /\ Len(b) >= Len(suffix)
       /\ SubSeq(b, Len(b) - Len(suffix) + 1, Len(b)) = suffix
    THEN SubSeq(b, 1, Len(b) - Len(suffix))
    ELSE b

\* The value stored for a fact.  The parsers convertBytesToMap and
\* convertBytesToSlice are left uninterpreted: their application is recorded.
Fact(conv, b, sep) ==
    IF conv = "TrimSuffix"
    THEN [fn |-> "string", data |-> TrimSuffix(b, << NL >>), sep |-> ""]
    ELSE [fn |-> conv, data |-> b, sep |-> sep]

\* m[k] = v
Put(m, k, v) == [x \in DOMAIN m \cup { k } |-> IF x = k THEN v ELSE m[x]]

\* default: return nil, nil
InfoSwitch ==
    /\ pc = "Info"
    /\ infoStep = 0
    /\ IF Supported
       THEN /\ infoStep' = 1
            /\ UNCHANGED << pc, ret >>
       ELSE /\ pc' = "done"
            /\ ret' = NilRet
            /\ infoStep' = infoStep
    /\ UNCHANGED << goos, isRoot, fs, openFiles, call, ctxDone, putSrc, putDst,
                    putMode, fetchSrc, fetchDst, fileOff, cmd, proc,
                    procStatus, out, err, osVars, procVars, calls, results, pre >>

\* Info calls c.FetchFile(ctx, path, &buffer) or c.ExecuteCommand(ctx, command)
InfoRead ==
    /\ pc = "Info"
    /\ infoStep \in 1..NumSteps
    /\ LET st == InfoSteps[infoStep]
       IN  /\ calls' = Append(calls, << st.op, st.arg >>)
           /\ IF st.op = "FetchFile"
              THEN /\ fetchSrc' = st.arg
                   /\ fetchDst' = << >>
                              /\ fileOff' = 0
                   /\ pc' = "FetchFile.open"
                   /\ UNCHANGED << cmd, out >>
              ELSE /\ cmd' = st.arg
                   /\ out' = << >>
                   /\ pc' = "ExecuteCommand.start"
                   /\ UNCHANGED << fetchSrc, fetchDst, fileOff >>
    /\ UNCHANGED << goos, isRoot, fs, openFiles, call, ctxDone, putSrc, putDst,
                    putMode, proc, procStatus, err, infoStep, osVars, procVars, ret,
                    results, pre >>

\* (mutant) the error of the last read is not checked
StepFailedButLast(i, e) == i # NumSteps /\ e # NoErr

\* if err != nil, after fact source i returned e
StepFailed(i, e) == e # NoErr

\* The read returned to Info: wrap and return its error, or store the fact and
\* go on; after the last one return the document.
InfoNext ==
    /\ pc = "ret"
    /\ call = "Info"
    /\ results' = Append(results, err)
    /\ LET st == InfoSteps[infoStep]
           b  == IF st.op = "FetchFile" THEN fetchDst ELSE out
           v  == Fact(st.conv, b, st.sep)
           os == IF st.map = "os" THEN Put(osVars, st.key, v) ELSE osVars
           pr == IF st.map = "process" THEN Put(procVars, st.key, v) ELSE procVars
       IN  IF StepFailed(infoStep, err)
           THEN /\ ret' = [NilRet EXCEPT !.err = << st.msg, err >>]
                /\ pc' = "done"
                /\ UNCHANGED << infoStep, osVars, procVars >>
           ELSE /\ osVars' = os
                /\ procVars' = pr
                /\ IF infoStep = NumSteps
                   THEN /\ ret' = [isNil |-> FALSE, os |-> os, process |-> pr,
                                   err |-> << >>]
                        /\ pc' = "done"
                        /\ infoStep' = infoStep
                   ELSE /\ ret' = ret
                        /\ pc' = "Info"
                        /\ infoStep' = infoStep + 1
    /\ UNCHANGED << goos, isRoot, fs, openFiles, call, ctxDone, putSrc, putDst,
                    putMode, fetchSrc, fetchDst, fileOff, cmd, proc,
                    procStatus, out, err, calls, pre >>

----------------------------------------------------------------------------

Next ==
    \/ PutFileCall
    \/ PutFileStat
    \/ PutFileOpen
    \/ PutFileWrite
    \/ PutFileWriteErr
    \/ FetchFileCall
    \/ FetchFileOpen
    \/ FetchFileCopy
    \/ FetchFileEOF
    \/ FetchFileReadErr
    \/ FetchFileWriteErr
    \/ Finalize
    \/ ExecuteCommandCall
    \/ ExecStart
    \/ ExecStartErr
    \/ ProcExit
    \/ ExecWait
    \/ Cancel
    \/ InfoCall
    \/ InfoSwitch
    \/ InfoRead
    \/ InfoNext

Spec == Init /\ [][Next]_vars

----------------------------------------------------------------------------
(* Properties *)

IsPrefix(a, b) == Len(a) <= Len(b) /\ SubSeq(b, 1, Len(a)) = a

AnyFailed(rs) == \E i \in 1..Len(rs) : rs[i] # NoErr

OsKeys == { "release", "kernel_version", "hostname", "architecture" }
ProcessKeys == { "cpuInfo", "memInfo" }

\* The order section 4.3 gives for the fact sources.
ReadOrder ==
    << << "FetchFile", << "etc", "os-release" >> >>,
       << "ExecuteCommand", "uname -r" >>,
       << "ExecuteCommand", "hostname" >>,
       << "ExecuteCommand", "arch" >>,
       << "FetchFile", << "proc", "cpuinfo" >> >>,
       << "FetchFile", << "proc", "meminfo" >> >> >>

\* C1: on linux, when any of the six fact-source reads failed, Info returns
\* (nil, error) with a non-nil error; a non-nil document is returned only after
\* all six reads succeeded, complete and with a nil error.
C1_InfoAllOrNothing ==
    (call = "Info" /\ goos = "linux") =>
        /\ pc # "done" => ret = NilRet
        /\ (pc = "done" /\ AnyFailed(results)) => (ret.isNil /\ ret.err # << >>)
        /\ ~ret.isNil =>
              /\ pc = "done"
              /\ Len(results) = 6
              /\ ~AnyFailed(results)
              /\ ret.err = << >>
              /\ DOMAIN ret.os = OsKeys
              /\ DOMAIN ret.process = ProcessKeys

\* Info has returned (nil, error) because the sixth read, /proc/meminfo, failed
\* after the five before it succeeded.
C1_Witness ==
    /\ call = "Info" /\ goos = "linux" /\ pc = "done"
    /\ Len(results) = 6 /\ results[6] # NoErr
    /\ ret.isNil /\ ret.err # << >>

\* C2: on a platform other than linux, Info makes no FetchFile and no
\* ExecuteCommand call on the backend and returns (nil, nil).
C2_UnsupportedPlatformSkips ==
    (call = "Info" /\ goos # "linux") =>
        /\ calls = << >>
        /\ results = << >>
        /\ pc \in { "Info", "done" }
        /\ pc = "done" => (ret.isNil /\ ret.err = << >>)

\* Info has returned on darwin.
C2_Witness == call = "Info" /\ goos = "darwin" /\ pc = "done" /\ infoStep = 0

\* C3: PutFile(b, p, mode) on a path whose parent directory does not exist
\* creates the parent and leaves p holding exactly b with permission mode, for
\* every mode (an I/O error of the write and descriptor exhaustion aside).
C3_PutFileCreatesParent ==
    (call = "PutFile" /\ pc = "done" /\ pre.parent = "ENOENT"
        /\ err \notin { "EIO", "EMFILE" }) =>
        /\ err = NoErr
        /\ fs[Dir(putDst)].kind = "dir"
        /\ fs[putDst] = FileNode(putMode, putSrc)

\* C4: a PutFile(b, p, mode) on an existing file that returns nil leaves p
\* holding exactly b; once the file has been opened nothing of its prior
\* contents remains (after a failed write it holds a prefix of b), and when the
\* open fails the file is as it was.
C4_PutFileReplaces ==
    (call = "PutFile" /\ pc = "done" /\ pre.existed) =>
        /\ err = NoErr => fs[putDst].data = putSrc
        /\ err = "EIO" => (IsPrefix(fs[putDst].data, putSrc) /\ fs[putDst].data # putSrc)
        /\ err \notin { NoErr, "EIO" } => fs[putDst].data = pre.data

\* PutFile has returned nil after overwriting a longer file with a shorter,
\* non-empty b.
C4_Witness ==
    /\ call = "PutFile" /\ pc = "done" /\ pre.existed /\ err = NoErr
    /\ putSrc # << >>
    /\ Len(putSrc) < Len(pre.data)

\* C5: when FetchFile(p, w) returns nil, w has received exactly the bytes of p,
\* in order, after what it held before, and p is as it was.
C5_FetchFileCopiesExactly ==
    /\ (call = "FetchFile" /\ pc = "done" /\ err = NoErr) =>
          /\ fetchDst = pre.w \o pre.data
          /\ fs[fetchSrc] = FileNode(fs[fetchSrc].mode, pre.data)
    /\ (call = "Info" /\ pc = "ret" /\ err = NoErr /\ calls[Len(calls)][1] = "FetchFile") =>
          /\ fetchDst = FactData
          /\ fs[fetchSrc].data = FactData

\* FetchFile has returned nil after copying a file of several chunks to a
\* writer that already held bytes.
C5_Witness ==
    /\ call = "FetchFile" /\ pc = "done" /\ err = NoErr
    /\ Len(pre.data) > ChunkSize
    /\ pre.w # << >>

\* C6: FetchFile on a source path that does not exist, or cannot be reached,
\* never writes to the destination writer and returns a non-nil error.
C6_FetchFileMissingSource ==
    (call = "FetchFile" /\ (~pre.existed \/ pre.parent # NoErr)) =>
        /\ fetchDst = pre.w
        /\ pc = "done" => err # NoErr

\* FetchFile has returned on a missing source, the writer holding bytes before.
C6_Witness ==
    /\ call = "FetchFile" /\ pc = "done" /\ ~pre.existed
    /\ pre.w # << >>

\* C7: ExecuteCommand does not run a command under a cancelled context: with
\* ctx already done no process is spawned and the call returns the
\* cancellation error; a running command is killed when ctx is cancelled and
\* the call then returns the cancellation error; no process outlives the call.
C7_ExecuteCommandCancel ==
    [][ /\ (pc = "ExecuteCommand.start" /\ ctxDone /\ pc' # pc) =>
              (err' = "canceled" /\ proc' = "none")
        /\ (proc = "running" /\ ctxDone') => proc' = "killed"
        /\ (proc = "killed" /\ pc' # pc) => (err' = "canceled" /\ proc' = "none")
        /\ pc' \in { "done", "ret", "Info" } => proc' = "none" ]_vars

\* A directly called command was killed by the cancellation and ExecuteCommand
\* has returned the cancellation error.
C7_Witness ==
    /\ call = "ExecuteCommand" /\ pc = "done"
    /\ ctxDone /\ err = "canceled" /\ proc = "none"

\* C8: when no call is in flight the backend holds no file open.
C8_NoHandleOutlivesCall == pc = "done" => openFiles = 0

\* C9: Info invokes the fact sources in the order of section 4.3, each at most
\* once, a source only after every earlier one succeeded, and none after a
\* failure.
C9_InfoReadOrder ==
    call = "Info" =>
        /\ Len(calls) <= 6
        /\ calls = SubSeq(ReadOrder, 1, Len(calls))
        /\ Len(results) \in { Len(calls) - 1, Len(calls) } \cap Nat
        /\ \A i \in 1..Len(calls) : \A j \in 1..(i - 1) : results[j] = NoErr
        /\ \A i \in 1..Len(results) :
              results[i] # NoErr => (i = Len(calls) /\ pc = "done" /\ ret.isNil)
        /\ (pc \in { "FetchFile.open", "FetchFile.copy", "ExecuteCommand.start",
                     "ExecuteCommand.wait", "ret" }) => Len(results) = Len(calls) - 1

\* Info has returned after its second read, uname -r, failed: four sources
\* were never read.
C9_Witness ==
    /\ call = "Info" /\ pc = "done"
    /\ Len(calls) = 2 /\ Len(results) = 2 /\ results[2] # NoErr

\* C10: once its ctx is cancelled, a FetchFile or PutFile call writes no
\* further byte and does not return nil.
C10_FileOpsObserveCancel ==
    [][ (call \in { "FetchFile", "PutFile" } /\ pc # "done" /\ ctxDone) =>
            /\ fetchDst' = fetchDst
            /\ fs' = fs
            /\ pc' = "done" => err' # NoErr ]_vars

====
